---- MODULE Spec2Model ----
(***************************************************************************)
(* A model of the petrinet crate (src/src/lib.rs): places holding u32      *)
(* token counts, weighted arcs, transitions with an optional guard, the    *)
(* net with its first-enabled stepping policy, and the scheduler stub.     *)
(*                                                                         *)
(* A client program drives the public API.  The places exist from the      *)
(* start (Place::new, with any initial count); the client then builds one  *)
(* transition at a time in `cur`, may query or fire it directly, moves it  *)
(* into the net with add_transition, and calls step().  Transitions are    *)
(* created and given their arcs before the first fire() or step() call, as *)
(* in the tests of the crate.                                              *)
(*                                                                         *)
(* Token counts are unsigned machine integers.  The width is scaled down   *)
(* from 32 bits to TokenBits bits; an arithmetic overflow panics when the  *)
(* crate is built with overflow checks (the debug profile) and wraps       *)
(* around otherwise (the release profile).  `checks` is that build         *)
(* setting: it is the same for a whole run, and the model fixes it when    *)
(* the first overflow happens, which is when it first makes a difference.  *)
(***************************************************************************)
EXTENDS Integers, Sequences, FiniteSets, TLC

VARIABLES
    tokens,   \* Place.tokens of every place: [Places -> 0..MaxU]
    cur,      \* the transition the client is building, or NoTransition
    net,      \* Petrinet.transitions: the registered transitions, in order
    checks,   \* "on": overflow checks are compiled in (panic); "off": wrap;
              \* "unknown" as long as no overflow has happened
    panic,    \* "none", or the message of the panic that ended the program
    last,     \* the last API call: [op, idx, res]; idx is the index of the
              \* transition a step fired (0: none) and, for is_enabled, 1
              \* when the call follows a fire() that found the transition
              \* enabled; res is the result of is_enabled
    pre,      \* the marking when the last API call started
    ncalls,   \* number of step()/fire() calls made so far
    hist      \* history: [init |-> the marking the places were created with,
              \* fired |-> for every registered transition, how often step()
              \* and how often the client fired it, cur |-> how often the
              \* client fired the transition it holds]

vars == <<tokens, cur, net, checks, panic, last, pre, ncalls, hist>>

----------------------------------------------------------------------------
(* Bounds of the model *)

TokenBits == 7          \* width of a token count (u32 in the source)
MaxInitTokens == 1      \* Place::new is called with 0..MaxInitTokens, or MaxU
MaxSize == 4            \* size of the net the client builds (see Size)
MaxCalls == 3           \* step()/fire() calls of the general client
WikiMaxSteps == 260     \* step() calls on the net of test_more_complex_petrinet

Places == {"P1", "P2"}

Modulus == 2 ^ TokenBits
MaxU == Modulus - 1     \* the largest count a place can hold (u32::MAX)

NoTransition == [none |-> TRUE]

NoPanic == "none"
SubOverflow == "attempt to subtract with overflow"
AddOverflow == "attempt to add with overflow"
NotImplemented == "not yet implemented: implement schedule"

----------------------------------------------------------------------------
(* Arc *)

\* Arc::new without the weight check.
ArcNew_NoCheck(place, weight) ==
    [ok |-> TRUE, arc |-> [weight |-> weight, place |-> place]]

\* Arc::new: Err for weight < 1, else an arc bound to the place.  An Arc is
\* immutable once built, so a reference to it is modelled by its value.
ArcNew(place, weight) ==
    IF weight < 1
    THEN [ok |-> FALSE, err |-> "weight must be greater 0"]
    ELSE [ok |-> TRUE, arc |-> [weight |-> weight, place |-> place]]

\* Arc::can_provide_required_tokens
CanProvideRequiredTokens(arc, m) == m[arc.place] >= arc.weight

\* A firing in progress is [tokens |-> marking, panic |-> message, checks |->
\* the build's overflow checks, overflowed |-> an overflow has happened].
Firing(m, chk) ==
    [tokens |-> m, panic |-> NoPanic, checks |-> chk, overflowed |-> FALSE]

\* consume_tokens emptying the place instead of subtracting the weight.
ConsumeTokens_TakesAll(arc, s) ==
    IF s.panic # NoPanic THEN s
    ELSE [s EXCEPT !.tokens[arc.place] = 0]

\* Arc::consume_tokens: tokens.set(tokens.get() - weight), in u32 arithmetic.
ConsumeTokens(arc, s) ==
    LET have == s.tokens[arc.place] IN
    IF s.panic # NoPanic THEN s
    ELSE IF have >= arc.weight
         THEN [s EXCEPT !.tokens[arc.place] = have - arc.weight]
    ELSE IF s.checks = "on"
         THEN [s EXCEPT !.panic = SubOverflow, !.overflowed = TRUE]
    ELSE [s EXCEPT !.tokens[arc.place] = (have - arc.weight) % Modulus,
                   !.overflowed = TRUE]

\* produce_tokens storing the weight instead of adding it.
ProduceTokens_SetsWeight(arc, s) ==
    IF s.panic # NoPanic THEN s
    ELSE [s EXCEPT !.tokens[arc.place] = arc.weight]

\* produce_tokens with a saturating addition.
ProduceTokens_Saturating(arc, s) ==
    LET sum == s.tokens[arc.place] + arc.weight IN
    IF s.panic # NoPanic THEN s
    ELSE [s EXCEPT !.tokens[arc.place] = IF sum <= MaxU THEN sum ELSE MaxU]

\* Arc::produce_tokens: tokens.set(tokens.get() + weight), in u32 arithmetic.
ProduceTokens(arc, s) ==
    LET sum == s.tokens[arc.place] + arc.weight IN
    IF s.panic # NoPanic THEN s
    ELSE IF sum <= MaxU
         THEN [s EXCEPT !.tokens[arc.place] = sum]
    ELSE IF s.checks = "on"
         THEN [s EXCEPT !.panic = AddOverflow, !.overflowed = TRUE]
    ELSE [s EXCEPT !.tokens[arc.place] = sum % Modulus, !.overflowed = TRUE]

----------------------------------------------------------------------------
(* Transition *)

\* Transition::new
TransitionNew ==
    [input_arcs |-> <<>>, output_arcs |-> <<>>, expression |-> "none"]

\* Transition::new_with_expression; func is "true" or "false", the closure's
\* constant result (|| true, || false in the tests).
NewWithExpression(func) ==
    [input_arcs |-> <<>>, output_arcs |-> <<>>, expression |-> func]

\* Calling the boxed closure.
CallExpression(f) == f = "true"

\* is_enabled that never calls the guard.
IsEnabled_IgnoresGuard(t, m) ==
    \A i \in 1..Len(t.input_arcs) :
        CanProvideRequiredTokens(t.input_arcs[i], m)

\* is_enabled answering from the marking the previous call started with
\* instead of the current one.
IsEnabled_Stale(t, m) ==
    LET all_arcs_enabled ==
            \A i \in 1..Len(t.input_arcs) :
                CanProvideRequiredTokens(t.input_arcs[i], pre)
    IN  IF t.expression # "none"
        THEN all_arcs_enabled /\ CallExpression(t.expression)
        ELSE all_arcs_enabled

\* Transition::is_enabled
IsEnabled(t, m) ==
    LET all_arcs_enabled ==
            \A i \in 1..Len(t.input_arcs) :
                CanProvideRequiredTokens(t.input_arcs[i], m)
    IN  IF t.expression # "none"
        THEN all_arcs_enabled /\ CallExpression(t.expression)
        ELSE all_arcs_enabled

\* The first loop of Transition::fire, from input arc i on.
RECURSIVE ConsumeFrom(_, _, _)
ConsumeFrom(arcs, i, s) ==
    IF i > Len(arcs) THEN s
    ELSE ConsumeFrom(arcs, i + 1, ConsumeTokens(arcs[i], s))

\* The second loop of Transition::fire, from output arc i on.
RECURSIVE ProduceFrom(_, _, _)
ProduceFrom(arcs, i, s) ==
    IF i > Len(arcs) THEN s
    ELSE ProduceFrom(arcs, i + 1, ProduceTokens(arcs[i], s))

\* fire without its first loop.
Fire_SkipsInputs(t, m, chk) ==
    ProduceFrom(t.output_arcs, 1, Firing(m, chk))

\* fire with its two loops exchanged: the output arcs produce first.
Fire_ProducesFirst(t, m, chk) ==
    ConsumeFrom(t.input_arcs, 1,
        ProduceFrom(t.output_arcs, 1, Firing(m, chk)))

\* Transition::fire on marking m: every input arc consumes, then every
\* output arc produces; a panic stops it where it is.
Fire(t, m, chk) ==
    ProduceFrom(t.output_arcs, 1,
        ConsumeFrom(t.input_arcs, 1, Firing(m, chk)))

----------------------------------------------------------------------------
(* Petrinet *)

\* The loop of step taking the last enabled transition instead of the first.
FirstEnabled_Last(ts, m) ==
    LET en == {i \in 1..Len(ts) : IsEnabled(ts[i], m)}
    IN  IF en = {} THEN 0 ELSE CHOOSE i \in en : \A j \in en : i >= j

\* The loop of Petrinet::step: the index of the first transition, in
\* collection order, whose is_enabled() is true; 0 when there is none.
FirstEnabled(ts, m) ==
    LET en == {i \in 1..Len(ts) : IsEnabled(ts[i], m)}
    IN  IF en = {} THEN 0 ELSE CHOOSE i \in en : \A j \in en : i <= j

\* step without its `break`: every transition found enabled as the loop
\* goes on is fired.
RECURSIVE FireAllFrom(_, _, _)
FireAllFrom(ts, i, s) ==
    IF i > Len(ts) \/ s.panic # NoPanic THEN s
    ELSE IF IsEnabled(ts[i], s.tokens)
         THEN FireAllFrom(ts, i + 1,
                  [Fire(ts[i], s.tokens, s.checks) EXCEPT
                      !.overflowed = @ \/ s.overflowed])
    ELSE FireAllFrom(ts, i + 1, s)

StepResult_NoBreak(ts, m, chk) ==
    [idx |-> FirstEnabled(ts, m), fired |-> FireAllFrom(ts, 1, Firing(m, chk))]

\* step without its is_enabled() test: the first transition is fired.
StepResult_NoCheck(ts, m, chk) ==
    IF Len(ts) = 0
    THEN [idx |-> 0, fired |-> Firing(m, chk)]
    ELSE [idx |-> FirstEnabled(ts, m), fired |-> Fire(ts[1], m, chk)]

\* Petrinet::step on marking m: the index of the transition fired (0 for
\* none) and the firing.
StepResult(ts, m, chk) ==
    LET i == FirstEnabled(ts, m) IN
    IF i = 0
    THEN [idx |-> 0, fired |-> Firing(m, chk)]
    ELSE [idx |-> i, fired |-> Fire(ts[i], m, chk)]

----------------------------------------------------------------------------
(* The client program *)

Running == panic = NoPanic

\* The client is still building: it has not called fire() or step() yet.
Building == Running /\ ncalls = 0

\* The overflow checks the build may have, given what has been seen of it.
Builds == IF checks = "unknown" THEN {"on", "off"} ELSE {checks}

\* The outcome r of a firing becomes the program's state.
Fired(r) ==
    /\ tokens' = r.tokens
    /\ panic' = r.panic
    /\ checks' = IF r.overflowed THEN r.checks ELSE checks

\* The size of what the client has built: one for every transition, one for
\* every guard, and the weight of every arc attached.
RECURSIVE WeightFrom(_, _)
WeightFrom(arcs, i) ==
    IF i > Len(arcs) THEN 0 ELSE arcs[i].weight + WeightFrom(arcs, i + 1)

SizeOf(t) ==
    IF t = NoTransition THEN 0
    ELSE 1 + (IF t.expression = "none" THEN 0 ELSE 1)
           + WeightFrom(t.input_arcs, 1) + WeightFrom(t.output_arcs, 1)

RECURSIVE SizeFrom(_, _)
SizeFrom(ts, i) ==
    IF i > Len(ts) THEN 0 ELSE SizeOf(ts[i]) + SizeFrom(ts, i + 1)

Size == SizeOf(cur) + SizeFrom(net, 1)

Built ==
    /\ last' = [op |-> "build", idx |-> 0, res |-> FALSE]
    /\ pre' = tokens
    /\ UNCHANGED <<tokens, checks, panic, ncalls>>

NeverFired == [step |-> 0, direct |-> 0]

\* let mut t = Transition::new();
DoTransitionNew ==
    /\ Building /\ cur = NoTransition /\ Size + 1 <= MaxSize
    /\ cur' = TransitionNew
    /\ UNCHANGED <<net, hist>>
    /\ Built

\* let mut t = Transition::new_with_expression(|| func);
DoNewWithExpression ==
    /\ Building /\ cur = NoTransition /\ Size + 2 <= MaxSize
    /\ \E func \in {"true", "false"} : cur' = NewWithExpression(func)
    /\ UNCHANGED <<net, hist>>
    /\ Built

\* let a = Arc::new(&place, weight); an Ok arc goes to t.add_input(&a),
\* which pushes it; an Err leaves the transition as it is.
AddInput ==
    /\ Building /\ cur # NoTransition
    /\ \E place \in Places, weight \in 0..(MaxSize - Size) :
          LET a == ArcNew(place, weight) IN
          IF a.ok
          THEN /\ cur' = [cur EXCEPT !.input_arcs = Append(@, a.arc)]
               /\ last' = [op |-> "build", idx |-> 0, res |-> FALSE]
          ELSE /\ cur' = cur
               /\ last' = [op |-> "arc_err", idx |-> weight, res |-> FALSE]
    /\ pre' = tokens
    /\ UNCHANGED <<tokens, net, checks, panic, ncalls, hist>>

\* let a = Arc::new(&place, weight); an Ok arc goes to t.add_output(&a).
AddOutput ==
    /\ Building /\ cur # NoTransition
    /\ \E place \in Places, weight \in 0..(MaxSize - Size) :
          LET a == ArcNew(place, weight) IN
          IF a.ok
          THEN /\ cur' = [cur EXCEPT !.output_arcs = Append(@, a.arc)]
               /\ last' = [op |-> "build", idx |-> 0, res |-> FALSE]
          ELSE /\ cur' = cur
               /\ last' = [op |-> "arc_err", idx |-> weight, res |-> FALSE]
    /\ pre' = tokens
    /\ UNCHANGED <<tokens, net, checks, panic, ncalls, hist>>

\* net.add_transition(t): the transition moves into the net.
AddTransition ==
    /\ Running /\ cur # NoTransition
    /\ net' = Append(net, cur)
    /\ cur' = NoTransition
    /\ hist' = [hist EXCEPT
                   !.fired = Append(@, [NeverFired EXCEPT !.direct = hist.cur]),
                   !.cur = 0]
    /\ Built

\* is_enabled() taking the tokens it finds: an enabled transition's input
\* arcs consume as they are tested.
QueryIsEnabled_Consumes ==
    /\ Running /\ cur # NoTransition
    /\ last' = [op |-> "is_enabled",
                idx |-> IF last.op = "fire" /\ IsEnabled(cur, pre)
                        THEN 1 ELSE 0,
                res |-> IsEnabled(cur, tokens)]
    /\ pre' = tokens
    /\ tokens' = IF IsEnabled(cur, tokens)
                 THEN ConsumeFrom(cur.input_arcs, 1,
                                  Firing(tokens, "off")).tokens
                 ELSE tokens
    /\ UNCHANGED <<cur, net, checks, panic, ncalls, hist>>

\* t.is_enabled(), called by the client on its own transition.
QueryIsEnabled ==
    /\ Running /\ cur # NoTransition
    /\ last' = [op |-> "is_enabled",
                idx |-> IF last.op = "fire" /\ IsEnabled(cur, pre)
                        THEN 1 ELSE 0,
                res |-> IsEnabled(cur, tokens)]
    /\ pre' = tokens
    /\ UNCHANGED <<tokens, cur, net, checks, panic, ncalls, hist>>

\* t.fire(), called by the client on its own transition, enabled or not.
FireCur ==
    /\ Running /\ cur # NoTransition /\ ncalls < MaxCalls
    /\ \E chk \in Builds : Fired(Fire(cur, tokens, chk))
    /\ last' = [op |-> "fire", idx |-> 0, res |-> FALSE]
    /\ pre' = tokens
    /\ ncalls' = ncalls + 1
    /\ hist' = [hist EXCEPT !.cur = @ + 1]
    /\ UNCHANGED <<cur, net>>

\* net.step()
StepUpTo(limit) ==
    /\ Running /\ ncalls < limit
    /\ \E chk \in Builds :
          LET r == StepResult(net, tokens, chk) IN
          /\ Fired(r.fired)
          /\ last' = [op |-> "step", idx |-> r.idx, res |-> FALSE]
          /\ hist' = IF r.idx = 0 THEN hist
                     ELSE [hist EXCEPT !.fired[r.idx].step = @ + 1]
    /\ pre' = tokens
    /\ ncalls' = ncalls + 1
    /\ UNCHANGED <<cur, net>>

Step == StepUpTo(MaxCalls)

\* RandomTransitionScheduler::new().schedule(&[t]) on the client's own
\* transition: the body is todo!(), which panics; nothing is returned.
Schedule ==
    /\ Running /\ cur # NoTransition
    /\ panic' = NotImplemented
    /\ last' = [op |-> "schedule", idx |-> 0, res |-> FALSE]
    /\ pre' = tokens
    /\ UNCHANGED <<tokens, cur, net, checks, ncalls, hist>>

\* Place::new(tokens, name): any u32; the model draws small counts and the
\* largest one.
InitTokens == (0..MaxInitTokens) \cup {MaxU}

Init ==
    /\ tokens \in [Places -> InitTokens]
    /\ cur = NoTransition
    /\ net = <<>>
    /\ checks = "unknown"
    /\ panic = NoPanic
    /\ last = [op |-> "init", idx |-> 0, res |-> FALSE]
    /\ pre = tokens
    /\ ncalls = 0
    /\ hist = [init |-> tokens, fired |-> <<>>, cur |-> 0]

Next ==
    \/ DoTransitionNew
    \/ DoNewWithExpression
    \/ AddInput
    \/ AddOutput
    \/ AddTransition
    \/ QueryIsEnabled
    \/ FireCur
    \/ Step
    \/ Schedule

Spec == Init /\ [][Next]_vars

----------------------------------------------------------------------------
(* The net of tests::test_more_complex_petrinet, stepped over and over *)

WikiPlaces == {"P1", "P2", "P3", "P4"}

WikiArc(place) == ArcNew(place, 1).arc

\* t1: input a1 (P1); outputs a2 (P2), a3 (P3)
WikiT1 ==
    [TransitionNew EXCEPT
        !.input_arcs = <<WikiArc("P1")>>,
        !.output_arcs = <<WikiArc("P2"), WikiArc("P3")>>]

\* t2: inputs a4 (P2), a5 (P3); outputs a6 (P4), a7 (P1)
WikiT2 ==
    [TransitionNew EXCEPT
        !.input_arcs = <<WikiArc("P2"), WikiArc("P3")>>,
        !.output_arcs = <<WikiArc("P4"), WikiArc("P1")>>]

WikiMarking(p1, p2, p3, p4) ==
    [p \in WikiPlaces |->
        IF p = "P1" THEN p1 ELSE IF p = "P2" THEN p2
        ELSE IF p = "P3" THEN p3 ELSE p4]

InitWiki ==
    /\ tokens = WikiMarking(1, 0, 2, 1)
    /\ cur = NoTransition
    /\ net = <<WikiT1, WikiT2>>
    /\ checks = "unknown"
    /\ panic = NoPanic
    /\ last = [op |-> "init", idx |-> 0, res |-> FALSE]
    /\ pre = tokens
    /\ ncalls = 0
    /\ hist = [init |-> tokens, fired |-> <<NeverFired, NeverFired>>, cur |-> 0]

StepWiki == StepUpTo(WikiMaxSteps)

NextWiki == StepWiki

SpecWiki == InitWiki /\ [][NextWiki]_vars

----------------------------------------------------------------------------
(* Vocabulary of the properties *)

\* The sum of the weights of the arcs of a list that are on place p.
RECURSIVE WeightOn(_, _, _)
WeightOn(arcs, i, p) ==
    IF i > Len(arcs) THEN 0
    ELSE (IF arcs[i].place = p THEN arcs[i].weight ELSE 0)
         + WeightOn(arcs, i + 1, p)

InSum(t, p) == WeightOn(t.input_arcs, 1, p)
OutSum(t, p) == WeightOn(t.output_arcs, 1, p)

\* Every input arc's place holds at least the arc's weight.
InputsSatisfied(t, m) ==
    \A i \in 1..Len(t.input_arcs) :
        m[t.input_arcs[i].place] >= t.input_arcs[i].weight

\* The transition has no guard, or its guard evaluates to true.
GuardAllows(t) == t.expression \in {"none", "true"}

\* The marking m with the consume/produce effect of t applied once, in the
\* arithmetic of the token counts.
Effect(t, m) ==
    [p \in DOMAIN m |-> (m[p] - InSum(t, p) + OutSum(t, p)) % Modulus]

\* The transition has no input arcs and no guard.
Unconditional(t) == Len(t.input_arcs) = 0 /\ t.expression = "none"

\* Firing t on marking m takes no count out of the range of the counts:
\* every place holds the weights its input arcs take, and what the output
\* arcs add fits.
StaysInRange(t, m) ==
    \A p \in DOMAIN m :
        /\ InSum(t, p) <= m[p]
        /\ m[p] - InSum(t, p) + OutSum(t, p) <= MaxU

\* Firing t is one produce_tokens call and nothing else.
OneProduce(t) == Len(t.input_arcs) = 0 /\ Len(t.output_arcs) = 1

\* Exactly one arc of the list is on place p.
OnceOn(arcs, p) == Cardinality({i \in 1..Len(arcs) : arcs[i].place = p}) = 1

\* t has p as an input (one arc) and as an output (one arc).
SelfLoop(t, p) == OnceOn(t.input_arcs, p) /\ OnceOn(t.output_arcs, p)

\* What one firing of t adds to place p (negative when it takes more).
Delta(t, p) == OutSum(t, p) - InSum(t, p)

\* The sum, over the registered transitions from index j on, of the number
\* of times the transition has fired times what one firing adds to p.
RECURSIVE FiredDelta(_, _)
FiredDelta(j, p) ==
    IF j > Len(net) THEN 0
    ELSE (hist.fired[j].step + hist.fired[j].direct) * Delta(net[j], p)
         + FiredDelta(j + 1, p)

\* The same sum over all transitions, the one the client holds included.
TotalDelta(p) ==
    FiredDelta(1, p)
        + (IF cur = NoTransition THEN 0 ELSE hist.cur * Delta(cur, p))

\* The transition is enabled in every marking: no input arcs, and no guard
\* or a guard that is true.
AlwaysEnabled(t) == Len(t.input_arcs) = 0 /\ GuardAllows(t)

\* No transition of ts is enabled in marking m.
Dead(ts, m) == \A j \in 1..Len(ts) : ~IsEnabled(ts[j], m)

\* The transitions the client has created, registered or not.
AllTransitions ==
    {net[j] : j \in 1..Len(net)} \cup (IF cur = NoTransition THEN {} ELSE {cur})

\* The arcs attached to a transition.
ArcsOf(t) ==
    {t.input_arcs[i] : i \in 1..Len(t.input_arcs)}
        \cup {t.output_arcs[i] : i \in 1..Len(t.output_arcs)}

AfterStep == last.op = "step"
AfterFire == last.op = "fire"

----------------------------------------------------------------------------
(* C1 - C5 *)

\* C1: after any sequence of step() calls every count is >= 0, that is, no
\* step ever subtracts more tokens from a place than the place holds: the
\* input arcs of the transition a step fires ask, place by place, for no
\* more than the marking at the start of the step has.
C1_NoStepOverdraws ==
    (AfterStep /\ last.idx > 0) =>
        \A p \in DOMAIN pre : InSum(net[last.idx], p) <= pre[p]

\* C2: step() fires the first transition, in registration order, that is
\* enabled in the marking at the start of the step: the transition fired is
\* enabled, every transition before it is not, and a step fires nothing
\* only when nothing is enabled.
C2_StepFiresFirstEnabled ==
    AfterStep =>
        /\ last.idx \in 0..Len(net)
        /\ last.idx > 0 =>
              /\ InputsSatisfied(net[last.idx], pre)
              /\ GuardAllows(net[last.idx])
              /\ \E chk \in Builds :
                    tokens = Fire(net[last.idx], pre, chk).tokens
        /\ \A j \in 1..Len(net) :
              (last.idx = 0 \/ j < last.idx) =>
                  ~(InputsSatisfied(net[j], pre) /\ GuardAllows(net[j]))

\* Two transitions were enabled and differ in effect; the first one fired.
C2_Witness ==
    /\ AfterStep /\ Running /\ last.idx = 1 /\ Len(net) = 2
    /\ IsEnabled(net[2], pre)
    /\ Effect(net[1], pre) # Effect(net[2], pre)

\* C3: one step() fires at most one transition, however many are enabled:
\* the marking after a step that returned is the marking before it, or the
\* marking before it with the effect of exactly one transition applied
\* once.
C3_AtMostOneFiring ==
    (AfterStep /\ Running) =>
        \/ last.idx = 0 /\ tokens = pre
        \/ last.idx > 0 /\ tokens = Effect(net[last.idx], pre)

\* Two transitions were enabled, each changing the marking, and the step
\* applied one effect, not both.
C3_Witness ==
    /\ AfterStep /\ Running /\ Len(net) = 2
    /\ IsEnabled(net[1], pre) /\ IsEnabled(net[2], pre)
    /\ Effect(net[1], pre) # pre
    /\ Effect(net[2], Effect(net[1], pre)) # Effect(net[1], pre)
    /\ tokens = Effect(net[1], pre)

\* C4: when no transition is enabled (the empty net included) step()
\* leaves every count unchanged and does not fail.
C4_DeadStepIsNoOp ==
    (AfterStep /\ \A j \in 1..Len(net) :
                    ~(InputsSatisfied(net[j], pre) /\ GuardAllows(net[j])))
        => tokens = pre /\ Running /\ last.idx = 0

\* A step on a net whose only transitions are disabled, one of them with
\* arcs that would have changed the marking.
C4_Witness ==
    /\ AfterStep /\ Len(net) >= 1
    /\ \A j \in 1..Len(net) : ~IsEnabled(net[j], pre)
    /\ \E j \in 1..Len(net) : Effect(net[j], pre) # pre

\* C5: is_enabled() is true iff every input arc's place holds at least the
\* arc's weight and the guard, when there is one, evaluates to true.
C5_IsEnabledIffInputsAndGuard ==
    /\ last.op = "is_enabled" =>
          (last.res <=> (InputsSatisfied(cur, pre) /\ GuardAllows(cur)))
    /\ \A j \in 1..Len(net) :
          IsEnabled(net[j], tokens)
              <=> (InputsSatisfied(net[j], tokens) /\ GuardAllows(net[j]))

\* An always-false guard disabled a transition whose inputs are satisfied.
C5_Witness ==
    /\ last.op = "is_enabled" /\ ~last.res
    /\ cur.expression = "false"
    /\ Len(cur.input_arcs) >= 1
    /\ InputsSatisfied(cur, pre)

----------------------------------------------------------------------------
(* C6 - C10 *)

\* C6: firing an enabled transition subtracts the weight of each input arc
\* from its place and adds the weight of each output arc to its place, once
\* per arc: each place ends at old - (input weights on it) + (output
\* weights on it).  Stated for firings whose additions stay within the
\* range of a count.
C6_FireAppliesWeights ==
    (/\ AfterFire
     /\ IsEnabled(cur, pre)
     /\ \A p \in DOMAIN pre : pre[p] + OutSum(cur, p) <= MaxU)
        => /\ Running
           /\ \A p \in DOMAIN pre :
                 tokens[p] = pre[p] - InSum(cur, p) + OutSum(cur, p)

\* C7: Arc::new returns an error for weight < 1 and creates no arc, and
\* returns an arc bound to the given place with the given weight for every
\* weight >= 1; so every arc of every transition has weight >= 1.
C7_ArcWeightAtLeastOne ==
    /\ \A t \in AllTransitions : \A a \in ArcsOf(t) :
          a.weight >= 1 /\ a.place \in Places
    /\ last.op = "arc_err" => last.idx < 1 /\ cur # NoTransition
    /\ \A place \in Places, weight \in 0..MaxSize :
          /\ ArcNew(place, weight).ok <=> weight >= 1
          /\ weight >= 1 =>
                ArcNew(place, weight).arc = [weight |-> weight, place |-> place]

\* Arc::new was refused for weight 0 after an arc had been built and added.
C7_Witness ==
    /\ last.op = "arc_err" /\ last.idx = 0
    /\ cur # NoTransition /\ ArcsOf(cur) # {}

\* C8: firing a transition one of whose input places holds fewer tokens than
\* the arc's weight never leaves a place with a silently wrapped-around
\* count: the call fails, or the count is clamped (no place ends above its
\* old count plus what the output arcs add to it).
C8_NoSilentWraparound ==
    (AfterFire /\ ~InputsSatisfied(cur, pre)) =>
        \/ panic # NoPanic
        \/ \A p \in DOMAIN pre : tokens[p] <= pre[p] + OutSum(cur, p)

\* C9: schedule, given a non-empty collection of enabled transitions,
\* returns a result that selects exactly one of them by an index within the
\* collection.
C9_ScheduleSelectsOne ==
    (last.op = "schedule" /\ IsEnabled(cur, pre)) =>
        Running /\ last.idx = 1

----------------------------------------------------------------------------
(* C11 - C15 *)

C13_EnablementRecomputed ==
    /\ (last.op = "is_enabled" /\ last.idx = 1) =>
          (last.res <=> (InputsSatisfied(cur, tokens) /\ GuardAllows(cur)))
    /\ (AfterFire /\ Running /\ IsEnabled(cur, pre)) =>
          (IsEnabled(cur, tokens)
              <=> (InputsSatisfied(cur, Effect(cur, pre)) /\ GuardAllows(cur)))

C13_Witness ==
    /\ last.op = "is_enabled" /\ last.idx = 1 /\ ~last.res
    /\ GuardAllows(cur) /\ Len(cur.input_arcs) >= 1
    /\ checks = "unknown"

\* C14: is_enabled(), and the can_provide_required_tokens() calls it makes,
\* are pure queries: a call, on an enabled or a disabled transition and
\* however often repeated, leaves every place's token count, the transition
\* and the net as they were.
C14_QueriesArePure ==
    [][last'.op = "is_enabled" =>
          /\ UNCHANGED <<tokens, cur, net, panic, checks>>
          /\ last'.res = IsEnabled(cur, tokens)]_vars

C14_Witness ==
    /\ last.op = "is_enabled" /\ last.res
    /\ Len(cur.input_arcs) >= 1 /\ ncalls >= 1
    /\ tokens = pre

----------------------------------------------------------------------------
(* C17 - C20 *)

\* C17: step() changes only token counts, and only of places that an input
\* or output arc of the transition it fires is on; every other place keeps
\* its count, and the transitions, their arcs, their guards and their order
\* stay as they are.
C17_StepFrame ==
    [][last'.op = "step" =>
          /\ net' = net /\ cur' = cur
          /\ \A p \in DOMAIN tokens :
                tokens'[p] # tokens[p] =>
                    /\ last'.idx \in 1..Len(net)
                    /\ \E a \in ArcsOf(net[last'.idx]) : a.place = p]_vars

C17_Witness ==
    /\ AfterStep /\ last.idx = 1 /\ Len(net) >= 2 /\ tokens # pre
    /\ \E p \in DOMAIN pre :
          /\ \A a \in ArcsOf(net[1]) : a.place # p
          /\ \E a \in ArcsOf(net[2]) : a.place = p
          /\ IsEnabled(net[2], pre)
          /\ tokens[p] = pre[p]

\* C18: as long as no count has left the range of the counts, every place's
\* count is its initial count plus, summed over all transitions t, the
\* number of times t has fired times (the weights of t's output arcs on the
\* place minus the weights of t's input arcs on it).
C18_MarkingEquation ==
    checks = "unknown" =>
        \A p \in DOMAIN tokens : tokens[p] = hist.init[p] + TotalDelta(p)

C18_Witness ==
    /\ checks = "unknown" /\ AfterStep /\ Len(net) = 2
    /\ hist.fired[1].step = 2 /\ hist.fired[2].step = 1
    /\ \E p \in DOMAIN tokens :
          /\ Delta(net[1], p) < 0 /\ Delta(net[2], p) > 0
          /\ tokens[p] # hist.init[p]

\* C19: the first enabled transition starves the later ones. A step never
\* fires a transition registered after one that was enabled when the step
\* started, so behind a transition that is enabled at every step (one with
\* no input arcs and no false guard) no later transition is ever fired by
\* step(), whether or not it is enabled.
C19_EarlierStarvesLater ==
    /\ AfterStep =>
          \A i \in 1..Len(net) :
              IsEnabled(net[i], pre) => last.idx \in 1..i
    /\ \A i, j \in 1..Len(net) :
          (i < j /\ AlwaysEnabled(net[i])) => hist.fired[j].step = 0

C19_Witness ==
    /\ AfterStep /\ Running /\ Len(net) = 2
    /\ AlwaysEnabled(net[1]) /\ AlwaysEnabled(net[2])
    /\ Effect(net[2], pre) # pre
    /\ hist.fired[1].step = MaxCalls /\ hist.fired[2].step = 0

\* C20: a dead marking is absorbing. A step() that starts with no
\* transition enabled fires nothing, returns, and leaves the marking as it
\* was, so (the guards being constant) no transition is enabled when the
\* next step() starts either.
C20_DeadIsAbsorbing ==
    [][(last'.op = "step" /\ Dead(net, tokens)) =>
          /\ tokens' = tokens
          /\ last'.idx = 0 /\ panic' = NoPanic
          /\ Dead(net', tokens')]_vars

C20_Witness ==
    /\ AfterStep /\ last.idx = 0 /\ ncalls = MaxCalls
    /\ Len(net) >= 1 /\ cur = NoTransition
    /\ \A j \in 1..Len(net) : hist.fired[j] = NeverFired
    /\ \E j \in 1..Len(net) : Effect(net[j], tokens) # tokens
    /\ Dead(net, tokens) /\ tokens = hist.init

====
